---- MODULE Spec2Model ----
(***************************************************************************)
(* Model of src/caesar.py: the Cipher base class (lazy, memoized encrypt   *)
(* and decrypt with a decrypt-before-encrypt guard) and its two variants,  *)
(* Caesar and Unicode_Substitution.                                        *)
(*                                                                         *)
(* A Python str is a sequence of code points (integers); the Python value  *)
(* None is the sequence <<-1>>, which is no string.  A number passed as n  *)
(* is a record [type, num, den] standing for the value num/den of the      *)
(* given Python type, so that 1.5 is [type |-> "float", num |-> 3,         *)
(* den |-> 2].                                                             *)
(***************************************************************************)
EXTENDS Integers, Sequences, FiniteSets

VARIABLES cls, n, text, word_tokens, encrypted_text, decrypted_text, call

vars == <<cls, n, text, word_tokens, encrypted_text, decrypted_text, call>>

fields == <<cls, n, text, word_tokens, encrypted_text, decrypted_text>>

None == <<-1>>

(* ---- bounds of the model ---- *)

MaxLen == 3

(* ---- constants of the program ---- *)

ord_a == 97
ord_z == 122
ord_A == 65
ord_Z == 90
Space == 32
CaesarMaxN == 25
UnicodeMaxN == 65534
max_ord == 65535

(* ---- Python built-ins the code relies on ---- *)

\* str.isspace(), which decides where str.split() cuts (code points of the BMP).
IsSpace(c) ==
    c \in (9..13) \cup (28..32) \cup {133, 160, 5760} \cup (8192..8202)
          \cup {8232, 8233, 8239, 8287, 12288}

\* str.islower() of one character, for the code points 0..255.
IsLower(c) ==
    c \in (97..122) \cup {170, 181, 186} \cup (223..246) \cup (248..255)

\* str.isupper() of one character, for the code points 0..255.
IsUpper(c) ==
    c \in (65..90) \cup (192..214) \cup (216..222)

RECURSIVE SplitFrom(_, _, _)
SplitFrom(s, i, cur) ==
    IF i > Len(s)
    THEN IF cur = <<>> THEN <<>> ELSE <<cur>>
    ELSE IF IsSpace(s[i])
         THEN IF cur = <<>>
              THEN SplitFrom(s, i + 1, <<>>)
              ELSE <<cur>> \o SplitFrom(s, i + 1, <<>>)
         ELSE SplitFrom(s, i + 1, Append(cur, s[i]))

\* s.split(): the maximal runs of non-whitespace characters of s, in order.
split(s) == SplitFrom(s, 1, <<>>)

RECURSIVE JoinFrom(_, _)
JoinFrom(words, i) ==
    IF i > Len(words) THEN <<>>
    ELSE IF i = Len(words) THEN words[i]
    ELSE words[i] \o <<Space>> \o JoinFrom(words, i + 1)

\* " ".join(word_list)
join(words) == JoinFrom(words, 1)

(* ---- Caesar ---- *)

\* Mutant: the forward transform taken modulo the 26 letters of the alphabet.
Caesar_encrypt_char_mod26(c, k) ==
    IF IsLower(c) THEN ((c + k - ord_a) % (ord_z - ord_a + 1)) + ord_a
    ELSE IF IsUpper(c) THEN ((c + k - ord_A) % (ord_Z - ord_A + 1)) + ord_A
    ELSE c

\* The body of the character loop of Caesar._encrypt.
Caesar_encrypt_char(c, k) ==
    IF IsLower(c) THEN ((c + k - ord_a) % (ord_z - ord_a)) + ord_a
    ELSE IF IsUpper(c) THEN ((c + k - ord_A) % (ord_Z - ord_A)) + ord_A
    ELSE c

\* The body of the character loop of Caesar._decrypt.
Caesar_decrypt_char(c, k) ==
    IF IsLower(c) THEN ((c - k - ord_a) % (ord_z - ord_a)) + ord_a
    ELSE IF IsUpper(c) THEN ((c - k - ord_A) % (ord_Z - ord_A)) + ord_A
    ELSE c

Caesar_encrypt(tokens, k) ==
    join([w \in 1..Len(tokens) |->
            [i \in 1..Len(tokens[w]) |-> Caesar_encrypt_char(tokens[w][i], k)]])

Caesar_decrypt(enc, k) ==
    LET words == split(enc)
    IN  join([w \in 1..Len(words) |->
                [i \in 1..Len(words[w]) |-> Caesar_decrypt_char(words[w][i], k)]])

(* ---- Unicode_Substitution ---- *)

Unicode_encrypt_char(c, k) == (c + k) % max_ord

Unicode_decrypt_char(c, k) == (c - k) % max_ord

Unicode_encrypt(tokens, k) ==
    join([w \in 1..Len(tokens) |->
            [i \in 1..Len(tokens[w]) |-> Unicode_encrypt_char(tokens[w][i], k)]])

Unicode_decrypt(enc, k) ==
    LET words == split(enc)
    IN  join([w \in 1..Len(words) |->
                [i \in 1..Len(words[w]) |-> Unicode_decrypt_char(words[w][i], k)]])

\* self._encrypt() and self._decrypt(), dispatched on the class of the job.
_encrypt ==
    IF cls = "Caesar" THEN Caesar_encrypt(word_tokens, n)
    ELSE Unicode_encrypt(word_tokens, n)

_decrypt ==
    IF cls = "Caesar" THEN Caesar_decrypt(encrypted_text, n)
    ELSE Unicode_decrypt(encrypted_text, n)

(* ---- inputs ---- *)

PyInt(k) == [type |-> "int", num |-> k, den |-> 1]
PyFloat(p, q) == [type |-> "float", num |-> p, den |-> q]
NoArg == [type |-> "none", num |-> 0, den |-> 1]

CaesarChars == {Space, ord_a, ord_z}
UnicodeChars == {0, Space, ord_a, 65534}

StringsOver(chars) == UNION {[1..l -> chars] : l \in 0..MaxLen}

\* "abcdefghijklmnopqrstuvwxyz ABCDEFGHIJKLMNOPQRSTUVWXYZ"
Alphabet ==
    [i \in 1..26 |-> ord_a + i - 1] \o <<Space>> \o [i \in 1..26 |-> ord_A + i - 1]

\* "a   b\tc", "x", "\n a1 \xe9! ", "Attack at dawn" and the two alphabets
SampleTexts ==
    { <<97, 32, 32, 32, 98, 9, 99>>,
      <<120>>,
      <<10, 32, 97, 49, 32, 233, 33, 32>>,
      <<65, 116, 116, 97, 99, 107, 32, 97, 116, 32, 100, 97, 119, 110>>,
      Alphabet }

CaesarTexts == StringsOver(CaesarChars) \cup SampleTexts
UnicodeTexts == StringsOver(UnicodeChars) \cup SampleTexts

CaesarArgs ==
    {PyInt(k) : k \in -1..(CaesarMaxN + 1)} \cup {PyFloat(3, 2), PyFloat(1, 1)}

UnicodeArgs ==
    {PyInt(k) : k \in {-1, 0, 1, 6000, 65470, UnicodeMaxN, UnicodeMaxN + 1}}
        \cup {PyFloat(3, 2), PyFloat(1, 1)}

(* ---- the job ---- *)

Outcome(op, arg, raised, value) ==
    [op |-> op, arg |-> arg, raised |-> raised, value |-> value]

Init ==
    /\ cls = "none"
    /\ n = 0
    /\ text = None
    /\ word_tokens = <<>>
    /\ encrypted_text = None
    /\ decrypted_text = None
    /\ call = Outcome("none", NoArg, "none", None)

\* Mutant: the range assertion of Caesar.__init__ off by one at the top.
CaesarValid_upto26(a) ==
    /\ a.type = "int"
    /\ 0 <= a.num /\ a.num <= (CaesarMaxN + 1) * a.den

\* The two assertions of Caesar.__init__.
CaesarValid(a) ==
    /\ a.type = "int"
    /\ 0 <= a.num /\ a.num <= CaesarMaxN * a.den

\* The two assertions of Unicode_Substitution.__init__.
UnicodeValid(a) ==
    /\ a.type = "int"
    /\ 0 <= a.num /\ a.num <= UnicodeMaxN * a.den

\* Mutant: Cipher.__init__ keeping the text as one token instead of splitting it.
CipherInit_no_split(c, a, t) ==
    /\ cls' = c
    /\ n' = a.num
    /\ text' = t
    /\ word_tokens' = IF t = <<>> THEN <<>> ELSE <<t>>
    /\ encrypted_text' = None
    /\ decrypted_text' = None

\* Cipher.__init__
CipherInit(c, a, t) ==
    /\ cls' = c
    /\ n' = a.num
    /\ text' = t
    /\ word_tokens' = split(t)
    /\ encrypted_text' = None
    /\ decrypted_text' = None

NewCaesar(a, t) ==
    /\ cls = "none"
    /\ IF CaesarValid(a)
       THEN /\ CipherInit("Caesar", a, t)
            /\ call' = Outcome("Caesar", a, "none", None)
       ELSE /\ call' = Outcome("Caesar", a, "AssertionError", None)
            /\ UNCHANGED fields

NewUnicodeSubstitution(a, t) ==
    /\ cls = "none"
    /\ IF UnicodeValid(a)
       THEN /\ CipherInit("Unicode_Substitution", a, t)
            /\ call' = Outcome("Unicode_Substitution", a, "none", None)
       ELSE /\ call' = Outcome("Unicode_Substitution", a, "AssertionError", None)
            /\ UNCHANGED fields

\* Cipher.encrypt
encrypt ==
    /\ cls # "none"
    /\ encrypted_text' = IF encrypted_text = None THEN _encrypt ELSE encrypted_text
    /\ call' = Outcome("encrypt", NoArg, "none", encrypted_text')
    /\ UNCHANGED <<cls, n, text, word_tokens, decrypted_text>>

\* Mutant: decrypt returning None instead of raising when nothing is encrypted.
decrypt_silent ==
    /\ cls # "none"
    /\ IF encrypted_text = None
       THEN /\ call' = Outcome("decrypt", NoArg, "none", None)
            /\ UNCHANGED fields
       ELSE /\ decrypted_text' =
                    IF decrypted_text = None THEN _decrypt ELSE decrypted_text
            /\ call' = Outcome("decrypt", NoArg, "none", decrypted_text')
            /\ UNCHANGED <<cls, n, text, word_tokens, encrypted_text>>

\* Mutant: decrypt without the guard, deriving its result from the original tokens.
decrypt_rederive ==
    /\ cls # "none"
    /\ decrypted_text' =
            IF decrypted_text # None THEN decrypted_text
            ELSE IF encrypted_text = None THEN join(word_tokens)
            ELSE _decrypt
    /\ call' = Outcome("decrypt", NoArg, "none", decrypted_text')
    /\ UNCHANGED <<cls, n, text, word_tokens, encrypted_text>>

\* Mutant: decrypt storing its result in encrypted_text, the field encrypt owns.
decrypt_wrong_field ==
    /\ cls # "none"
    /\ IF encrypted_text = None
       THEN /\ call' = Outcome("decrypt", NoArg, "RuntimeError", None)
            /\ UNCHANGED fields
       ELSE /\ encrypted_text' = _decrypt
            /\ call' = Outcome("decrypt", NoArg, "none", encrypted_text')
            /\ UNCHANGED <<cls, n, text, word_tokens, decrypted_text>>

\* Cipher.decrypt
decrypt ==
    /\ cls # "none"
    /\ IF encrypted_text = None
       THEN /\ call' = Outcome("decrypt", NoArg, "RuntimeError", None)
            /\ UNCHANGED fields
       ELSE /\ decrypted_text' =
                    IF decrypted_text = None THEN _decrypt ELSE decrypted_text
            /\ call' = Outcome("decrypt", NoArg, "none", decrypted_text')
            /\ UNCHANGED <<cls, n, text, word_tokens, encrypted_text>>

\* Cipher.get_text
get_text ==
    /\ cls # "none"
    /\ call' = Outcome("get_text", NoArg, "none", text)
    /\ UNCHANGED fields

Next ==
    \/ \E a \in CaesarArgs, t \in CaesarTexts : NewCaesar(a, t)
    \/ \E a \in UnicodeArgs, t \in UnicodeTexts : NewUnicodeSubstitution(a, t)
    \/ encrypt
    \/ decrypt
    \/ get_text

Spec == Init /\ [][Next]_vars

(* ---- vocabulary of the properties ---- *)

IsAsciiLetter(c) == c \in (97..122) \cup (65..90)

\* The characters of s that are not whitespace, in order.
NonSpace(s) == SelectSeq(s, LAMBDA c : ~IsSpace(c))

\* Only Latin letters, separated by single spaces.
LettersSingleSpaced(t) ==
    /\ \A i \in 1..Len(t) : IsAsciiLetter(t[i]) \/ t[i] = 32
    /\ t # <<>> => (t[1] # 32 /\ t[Len(t)] # 32)
    /\ \A i \in 1..(Len(t) - 1) : ~(t[i] = 32 /\ t[i + 1] = 32)

\* The number of whitespace-delimited tokens of t: the positions where one starts.
TokenCount(t) ==
    Cardinality({i \in 1..Len(t) : ~IsSpace(t[i]) /\ (i = 1 \/ IsSpace(t[i - 1]))})

\* Created = 0, Encrypted = 1, Decrypted = 2.
Stage ==
    IF decrypted_text # None THEN 2
    ELSE IF encrypted_text # None THEN 1
    ELSE 0

(* ---- properties ---- *)

\* C1: Caesar round trip.  For every shift in 0..25 and every text of Latin
\* letters (z and Z included) separated by single spaces, decrypt() after
\* encrypt() returns exactly the original text.
C1_CaesarRoundTrip ==
    (cls = "Caesar" /\ decrypted_text # None /\ LettersSingleSpaced(text))
        => decrypted_text = text

\* C2: Unicode round trip.  For every shift in 0..65534 and every text of code
\* points in 0..65534, decrypt() after encrypt() returns the original
\* whitespace-delimited tokens joined by single spaces, also when a shifted
\* character lands on a whitespace code point.
C2_UnicodeRoundTrip ==
    (/\ cls = "Unicode_Substitution"
     /\ decrypted_text # None
     /\ \A i \in 1..Len(text) : text[i] \in 0..65534)
        => decrypted_text = join(split(text))

\* C3: state guard.  decrypt() on a job that was never encrypted raises
\* RuntimeError and leaves every field of the job unchanged; the encrypt() that
\* follows succeeds, and so does the decrypt() after it.
C3_StateGuard ==
    [][ /\ (call'.op = "decrypt" /\ encrypted_text = None)
            => (call'.raised = "RuntimeError" /\ UNCHANGED fields)
        /\ (call.op = "decrypt" /\ call.raised = "RuntimeError" /\ call'.op = "encrypt")
            => (call'.raised = "none" /\ encrypted_text' # None
                    /\ call'.value = encrypted_text')
        /\ (call.op = "encrypt" /\ call'.op = "decrypt")
            => (call'.raised = "none" /\ decrypted_text' # None
                    /\ call'.value = decrypted_text')
      ]_vars

C3_Witness ==
    /\ cls # "none"
    /\ call.op = "decrypt"
    /\ call.raised = "RuntimeError"
    /\ encrypted_text = None
    /\ decrypted_text = None

\* C4: modulus pinning on the one-letter text "z".  Caesar(0, "z").encrypt()
\* returns "z" and Caesar(1, "z").encrypt() returns "a".
C4_ModulusPinning ==
    (cls = "Caesar" /\ text = <<122>> /\ call.op = "encrypt")
        => /\ n = 0 => call.value = <<122>>
           /\ n = 1 => call.value = <<97>>

\* C5: non-alphabetic passthrough.  For Caesar, every character of a token that
\* is not an ASCII letter (digits, punctuation, non-ASCII letters) is left
\* unchanged by encrypt() and by decrypt().
C5_NonAlphabeticPassthrough ==
    /\ (cls = "Caesar" /\ encrypted_text # None)
        => /\ Len(NonSpace(encrypted_text)) = Len(NonSpace(text))
           /\ \A i \in 1..Len(NonSpace(text)) :
                ~IsAsciiLetter(NonSpace(text)[i])
                    => NonSpace(encrypted_text)[i] = NonSpace(text)[i]
    /\ (cls = "Caesar" /\ decrypted_text # None)
        => /\ Len(NonSpace(decrypted_text)) = Len(NonSpace(encrypted_text))
           /\ \A i \in 1..Len(NonSpace(encrypted_text)) :
                ~IsAsciiLetter(NonSpace(encrypted_text)[i])
                    => NonSpace(decrypted_text)[i] = NonSpace(encrypted_text)[i]

\* C6: memoization.  encrypted_text is set by an encrypt() that finds it absent
\* and by nothing else, decrypted_text by a decrypt() that finds it absent and by
\* nothing else; once set neither changes, and every later encrypt() (decrypt())
\* returns the value that is stored.
C6_Memoization ==
    [][ /\ encrypted_text' # encrypted_text
            => (encrypted_text = None /\ call'.op = "encrypt")
        /\ decrypted_text' # decrypted_text
            => (decrypted_text = None /\ call'.op = "decrypt")
        /\ (call'.op = "encrypt" /\ encrypted_text # None)
            => (call'.value = encrypted_text /\ UNCHANGED fields)
        /\ (call'.op = "decrypt" /\ decrypted_text # None)
            => (call'.value = decrypted_text /\ UNCHANGED fields)
        /\ call'.op = "get_text" => (call'.value = text /\ UNCHANGED fields)
      ]_vars

\* A second encrypt(), made after the job was decrypted.
C6_Witness ==
    /\ call.op = "encrypt"
    /\ call.value = encrypted_text
    /\ encrypted_text # None
    /\ decrypted_text # None
    /\ decrypted_text # encrypted_text

\* C7: construction bounds.  Caesar(n, text) succeeds exactly when n is an
\* integer with 0 <= n <= 25 and Unicode_Substitution(n, text) exactly when n is
\* an integer with 0 <= n <= 65534; otherwise it raises AssertionError and no
\* job is produced.
C7_ConstructionBounds ==
    /\ call.op = "Caesar"
        => /\ call.raised = "none"
                <=> (call.arg.type = "int" /\ call.arg.num \in 0..25)
           /\ call.raised = "none" => (cls = "Caesar" /\ n = call.arg.num)
           /\ call.raised # "none" => (call.raised = "AssertionError" /\ cls = "none")
    /\ call.op = "Unicode_Substitution"
        => /\ call.raised = "none"
                <=> (call.arg.type = "int" /\ call.arg.num \in 0..65534)
           /\ call.raised = "none"
                => (cls = "Unicode_Substitution" /\ n = call.arg.num)
           /\ call.raised # "none" => (call.raised = "AssertionError" /\ cls = "none")

\* Caesar(1.5, text) was refused.
C7_Witness ==
    /\ call.op = "Caesar"
    /\ call.arg = PyFloat(3, 2)
    /\ call.raised = "AssertionError"
    /\ cls = "none"

\* C8: whitespace normalization.  For Caesar, encrypt() returns one transformed
\* token per whitespace-delimited token of the text, in order, separated by
\* exactly one space, with no leading or trailing whitespace, whatever
\* whitespace the text had; Caesar(0, "a   b\tc").encrypt() returns "a b c".
C8_WhitespaceNormalization ==
    (cls = "Caesar" /\ encrypted_text # None)
        => LET e == encrypted_text
               k == TokenCount(text)
               blanks == {i \in 1..Len(e) : e[i] = 32}
           IN  /\ e # <<>> => (~IsSpace(e[1]) /\ ~IsSpace(e[Len(e)]))
               /\ \A i \in 1..Len(e) : IsSpace(e[i]) => e[i] = 32
               /\ \A i \in 1..(Len(e) - 1) : ~(e[i] = 32 /\ e[i + 1] = 32)
               /\ Cardinality(blanks) = (IF k = 0 THEN 0 ELSE k - 1)
               /\ TokenCount(e) = k
               /\ Len(split(e)) = Len(split(text))
               /\ \A w \in 1..Len(split(text)) :
                    /\ Len(split(e)[w]) = Len(split(text)[w])
                    /\ \A i \in 1..Len(split(text)[w]) :
                         split(e)[w][i] = Caesar_encrypt_char(split(text)[w][i], n)
               /\ (text = <<97, 32, 32, 32, 98, 9, 99>> /\ n = 0)
                    => e = <<97, 32, 98, 32, 99>>

C8_Witness ==
    /\ cls = "Caesar"
    /\ n = 0
    /\ text = <<97, 32, 32, 32, 98, 9, 99>>
    /\ encrypted_text = <<97, 32, 98, 32, 99>>

\* C9: lifecycle ordering.  decrypted_text is present only if encrypted_text is;
\* a job only moves forward, Created -> Encrypted -> Decrypted, one stage at a
\* time, and never to an earlier stage.
C9_LifecycleOrdering ==
    /\ [](decrypted_text # None => encrypted_text # None)
    /\ [][cls # "none" => (Stage' >= Stage /\ Stage' <= Stage + 1)]_vars

C9_Witness ==
    /\ call.op = "decrypt"
    /\ call.raised = "none"
    /\ Stage = 2
    /\ encrypted_text # None

====
